---- MODULE Spec2Model ----
(***************************************************************************)
(* Model of src/Request.js: the Request class (send, get, post) and the    *)
(* formatDataPieces flattener.                                             *)
(*                                                                         *)
(* JavaScript strings are sequences of one-character strings, so that key  *)
(* composition, String() coercion and encodeURIComponent are computed      *)
(* character by character.  A JavaScript value is a record                 *)
(*   [t, s, n, keys, kids]                                                 *)
(* t: the kind of value, s: the characters of a string, n: the value of a  *)
(* number, keys/kids: the own enumerable keys (insertion order) and the    *)
(* values of an object, kids alone the elements of an array.               *)
(***************************************************************************)
EXTENDS Integers, Sequences, FiniteSets, TLC

VARIABLES
    pc,             \* position of the call: "build" while the caller writes data, then
                    \* "flattened" (formatDataPieces alone) or
                    \* "pending" -> "settled" (send/get/post)
    entry,          \* entry point that was called: "none", "send", "get", "post"
    url,            \* the caller's url argument
    data,           \* the caller's data argument (a value, possibly undefined)
    callerSettings, \* the caller's settings object (Omitted when none is passed)
    settingsBefore, \* the caller's settings object as it was before the call
    dataPieces,     \* result of formatDataPieces(data)
    fetchCalls,     \* the invocations of fetch(url, options), in order
    promise,        \* the promise created by fetch
    returned        \* what the caller observes on the handle the entry point returned

vars == <<pc, entry, url, data, callerSettings, settingsBefore, dataPieces,
          fetchCalls, promise, returned>>

-----------------------------------------------------------------------------
(* Bounds of the explored inputs *)

\* number of values nested in the data mapping given to formatDataPieces alone
MaxNodes == 4

\* number of values nested in the data mapping given to send/get/post
MaxSendNodes == 3

-----------------------------------------------------------------------------
(* JavaScript values *)

Str(chars) == [t |-> "string", s |-> chars, n |-> 0, keys |-> <<>>, kids |-> <<>>]
Num(i) == [t |-> "number", s |-> <<>>, n |-> i, keys |-> <<>>, kids |-> <<>>]
Bool(b) == [t |-> "boolean", s |-> <<>>, n |-> IF b THEN 1 ELSE 0, keys |-> <<>>, kids |-> <<>>]
Null == [t |-> "null", s |-> <<>>, n |-> 0, keys |-> <<>>, kids |-> <<>>]
Undefined == [t |-> "undefined", s |-> <<>>, n |-> 0, keys |-> <<>>, kids |-> <<>>]
Function == [t |-> "function", s |-> <<>>, n |-> 0, keys |-> <<>>, kids |-> <<>>]
Symbol == [t |-> "symbol", s |-> <<>>, n |-> 0, keys |-> <<>>, kids |-> <<>>]
Arr(items) == [t |-> "array", s |-> <<>>, n |-> 0, keys |-> <<>>, kids |-> items]
Obj(ks, vs) == [t |-> "object", s |-> <<>>, n |-> 0, keys |-> ks, kids |-> vs]

\* property names used by the explored objects, in insertion order
KeyNames == << <<"a">>, <<"b">>, <<"c">>, <<"d">>, <<"e">>, <<"f">>, <<"g">>, <<"h">> >>

\* the object whose entries are vs, under the first Len(vs) names of KeyNames
ObjOf(vs) == Obj(SubSeq(KeyNames, 1, Len(vs)), vs)

Digits == <<"0", "1", "2", "3", "4", "5", "6", "7", "8", "9">>

\* decimal rendering of a natural number, as template literals and String() give it
RECURSIVE NumberToString(_)
NumberToString(i) ==
    IF i < 10 THEN <<Digits[i + 1]>>
    ELSE NumberToString(i \div 10) \o <<Digits[(i % 10) + 1]>>

\* String(val) for a primitive val
ToStringJS(val) ==
    CASE val.t = "string" -> val.s
      [] val.t = "number" -> NumberToString(val.n)
      [] val.t = "boolean" -> IF val.n = 1 THEN <<"t", "r", "u", "e">>
                                           ELSE <<"f", "a", "l", "s", "e">>
      [] val.t = "null" -> <<"n", "u", "l", "l">>
      [] OTHER -> <<"u", "n", "d", "e", "f", "i", "n", "e", "d">>

-----------------------------------------------------------------------------
(* formatDataPieces *)

\* variant: null classified with the values that are dropped
getValType_nullDropped(val) ==
    CASE val.t = "array" -> "Array"
      [] val.t = "object" -> "Object"
      [] val.t \in {"undefined", "null"} -> "Undefined"
      [] val.t = "function" -> "Function"
      [] val.t = "symbol" -> "Symbol"
      [] val.t = "string" -> "String"
      [] val.t = "number" -> "Number"
      [] OTHER -> "Boolean"

getValType(val) ==
    CASE val.t = "array" -> "Array"
      [] val.t = "object" -> "Object"
      [] val.t = "undefined" -> "Undefined"
      [] val.t = "function" -> "Function"
      [] val.t = "symbol" -> "Symbol"
      [] val.t = "string" -> "String"
      [] val.t = "number" -> "Number"
      [] val.t = "boolean" -> "Boolean"
      [] OTHER -> "Null"

\* variant: every array element is visited under its index
ArrayKey_alwaysIndexed(key, i, arrayVal) ==
    key \o <<"[">> \o NumberToString(i) \o <<"]">>

\* key of the element at index i of the array visited under key
ArrayKey(key, i, arrayVal) ==
    IF getValType(arrayVal) = "Array" \/ getValType(arrayVal) = "Object"
    THEN key \o <<"[">> \o NumberToString(i) \o <<"]">>
    ELSE key \o <<"[", "]">>

\* key of the entry objKey of the object visited under key
ObjectKey(key, objKey) == key \o <<"[">> \o objKey \o <<"]">>

\* the pairs formatKeyVal(key, val) pushes on dataPieces, in the order it pushes them
RECURSIVE formatKeyVal(_, _)
formatKeyVal(key, val) ==
    LET valType == getValType(val)
        fromArray[j \in 0..Len(val.kids)] ==
            IF j = 0 THEN <<>>
            ELSE fromArray[j - 1]
                 \o formatKeyVal(ArrayKey(key, j - 1, val.kids[j]), val.kids[j])
        fromObject[j \in 0..Len(val.kids)] ==
            IF j = 0 THEN <<>>
            ELSE fromObject[j - 1]
                 \o formatKeyVal(ObjectKey(key, val.keys[j]), val.kids[j])
    IN  CASE valType = "Array" -> fromArray[Len(val.kids)]
          [] valType = "Object" -> fromObject[Len(val.kids)]
          [] valType \in {"Undefined", "Function", "Symbol"} -> <<>>
          [] OTHER -> << [key |-> key, val |-> val] >>

formatDataPieces(d) ==
    LET top[j \in 0..Len(d.kids)] ==
            IF j = 0 THEN <<>>
            ELSE top[j - 1] \o formatKeyVal(d.keys[j], d.kids[j])
    IN  top[Len(d.kids)]

-----------------------------------------------------------------------------
(* Settings objects, FormData and the encodings of send *)

\* A settings object: the own properties method and body, each present or not.
\* given = FALSE stands for an argument that was not passed.
NoBody == [kind |-> "none", fields |-> <<>>]
CallerBody == [kind |-> "caller", fields |-> <<>>]
Omitted == [given |-> FALSE, hasMethod |-> FALSE, method |-> Undefined,
            hasBody |-> FALSE, body |-> NoBody]
EmptySettings == [Omitted EXCEPT !.given = TRUE]
MethodOnly(m) == [EmptySettings EXCEPT !.hasMethod = TRUE, !.method = m]

GET == Str(<<"G", "E", "T">>)
HEAD == Str(<<"H", "E", "A", "D">>)
POST == Str(<<"P", "O", "S", "T">>)

\* variant: properties the target already has are kept
ObjectAssign_keepsTarget(target, source) ==
    [given |-> TRUE,
     hasMethod |-> target.hasMethod \/ source.hasMethod,
     method |-> IF target.hasMethod THEN target.method ELSE source.method,
     hasBody |-> target.hasBody \/ source.hasBody,
     body |-> IF target.hasBody THEN target.body ELSE source.body]

\* Object.assign(target, source): every own property of source is written on
\* target, whatever its value; the result is target itself
ObjectAssign(target, source) ==
    [given |-> TRUE,
     hasMethod |-> target.hasMethod \/ source.hasMethod,
     method |-> IF source.hasMethod THEN source.method ELSE target.method,
     hasBody |-> target.hasBody \/ source.hasBody,
     body |-> IF source.hasBody THEN source.body ELSE target.body]

\* a default parameter value: used when the argument is not passed
DefaultSettings(st) == IF st.given THEN st ELSE EmptySettings
DefaultData(d) == IF d = Undefined THEN ObjOf(<<>>) ELSE d

\* encodeURIComponent on one character: unreserved characters stay, the others
\* become their %XX escape
EscapeChar(c) ==
    CASE c = " " -> <<"%", "2", "0">>
      [] c = "%" -> <<"%", "2", "5">>
      [] c = "&" -> <<"%", "2", "6">>
      [] c = "/" -> <<"%", "2", "F">>
      [] c = "=" -> <<"%", "3", "D">>
      [] c = "?" -> <<"%", "3", "F">>
      [] c = "[" -> <<"%", "5", "B">>
      [] c = "]" -> <<"%", "5", "D">>
      [] OTHER -> <<c>>

\* variant: the value is put in the query string as it is
encodeURIComponent_raw(val) == ToStringJS(val)

encodeURIComponent(val) ==
    LET str == ToStringJS(val)
        esc[j \in 0..Len(str)] ==
            IF j = 0 THEN <<>> ELSE esc[j - 1] \o EscapeChar(str[j])
    IN  esc[Len(str)]

\* dataPieces.map(([key, val]) => `${key}=${encodeURIComponent(val)}`)
QueryStringParams(pieces) ==
    [j \in 1..Len(pieces) |-> pieces[j].key \o <<"=">> \o encodeURIComponent(pieces[j].val)]

\* Array.prototype.join
Join(strs, sep) ==
    LET cat[j \in 0..Len(strs)] ==
            IF j = 0 THEN <<>>
            ELSE IF j = 1 THEN strs[1]
            ELSE cat[j - 1] \o sep \o strs[j]
    IN  cat[Len(strs)]

\* formData.append(key, val): one more entry at the end of the list, its value
\* converted to a string
FormDataAppend(formData, key, val) ==
    [formData EXCEPT !.fields = Append(@, [name |-> key, value |-> Str(ToStringJS(val))])]

\* variant: the values are percent-encoded before they are appended
BuildFormData_encoded(pieces) ==
    [kind |-> "FormData",
     fields |-> [j \in 1..Len(pieces) |->
                    [name |-> pieces[j].key,
                     value |-> Str(encodeURIComponent(pieces[j].val))]]]

\* new FormData() followed by dataPieces.forEach(([key, val]) => formData.append(key, val))
BuildFormData(pieces) ==
    LET fd[j \in 0..Len(pieces)] ==
            IF j = 0 THEN [kind |-> "FormData", fields |-> <<>>]
            ELSE FormDataAppend(fd[j - 1], pieces[j].key, pieces[j].val)
    IN  fd[Len(pieces)]

\* variant: the GET/HEAD case falls through into the default case
send_missingBreak(u, d, st) ==
    LET pieces == formatDataPieces(DefaultData(d))
        settings == ObjectAssign(MethodOnly(GET), DefaultSettings(st))
    IN  [dataPieces |-> pieces,
         url |-> IF settings.method = GET \/ settings.method = HEAD
                 THEN u \o <<"?">> \o Join(QueryStringParams(pieces), <<"&">>)
                 ELSE u,
         options |-> [settings EXCEPT !.hasBody = TRUE, !.body = BuildFormData(pieces)]]

\* Request.send up to the call of fetch: the pieces, and the url and the options
\* object that fetch receives
send(u, d, st) ==
    LET defaultSettings == MethodOnly(GET)
        pieces == formatDataPieces(DefaultData(d))
        settings == ObjectAssign(defaultSettings, DefaultSettings(st))
    IN  IF settings.method = GET \/ settings.method = HEAD
        THEN [dataPieces |-> pieces,
              url |-> u \o <<"?">> \o Join(QueryStringParams(pieces), <<"&">>),
              options |-> settings]
        ELSE [dataPieces |-> pieces,
              url |-> u,
              options |-> [settings EXCEPT !.hasBody = TRUE,
                                           !.body = BuildFormData(pieces)]]

\* fetch(url, settings): one more invocation of the transport
fetch(calls, u, options) == Append(calls, [url |-> u, options |-> options])

\* variant: a failure of the transport is caught and replaced by a settled value
ReturnedHandle_swallowed(p) ==
    IF p.state = "rejected" THEN [state |-> "fulfilled", value |-> "none"] ELSE p

\* return fetch(url, settings): the caller holds the promise fetch created
ReturnedHandle(p) == p

-----------------------------------------------------------------------------
(* Explored inputs *)

FlattenLeaves == {Str(<<"x">>), Num(1), Bool(TRUE), Null, Undefined, Function, Symbol}

SendLeaves == {Str(<<"x", " ", "&">>), Num(12), Bool(FALSE), Null, Undefined}

\* number of values a value holds, itself included
RECURSIVE Size(_)
Size(val) ==
    LET sum[j \in 0..Len(val.kids)] ==
            IF j = 0 THEN 0 ELSE sum[j - 1] + Size(val.kids[j])
    IN  1 + sum[Len(val.kids)]

IsComposite(val) == val.t \in {"array", "object"}

\* the depths, along the last-child path of val, at which a value can be appended
RECURSIVE OpenDepths(_)
OpenDepths(val) ==
    IF ~IsComposite(val) THEN {}
    ELSE {0} \cup (IF val.kids = <<>> THEN {}
                   ELSE {d + 1 : d \in OpenDepths(val.kids[Len(val.kids)])})

\* val with v appended to the array or object found d levels down its last-child path
RECURSIVE AppendAt(_, _, _)
AppendAt(val, d, v) ==
    IF d = 0
    THEN IF val.t = "object"
         THEN [val EXCEPT !.keys = Append(@, KeyNames[Len(val.kids) + 1]),
                          !.kids = Append(@, v)]
         ELSE [val EXCEPT !.kids = Append(@, v)]
    ELSE [val EXCEPT !.kids[Len(val.kids)] = AppendAt(@, d - 1, v)]

\* the caller writes one more value into the data mapping, in source order
AddValue(leaves, bound) ==
    /\ pc = "build"
    /\ data.t = "object"
    /\ Size(data) <= bound
    /\ \E d \in OpenDepths(data), v \in leaves \cup {Arr(<<>>), ObjOf(<<>>)} :
           data' = AppendAt(data, d, v)
    /\ UNCHANGED <<pc, entry, url, callerSettings, settingsBefore, dataPieces,
                   fetchCalls, promise, returned>>

-----------------------------------------------------------------------------
(* send, get and post *)

Urls == { <<"/", "u">> }

SettingsInputs ==
    {Omitted}
    \cup { [given |-> TRUE, hasMethod |-> hm, method |-> m, hasBody |-> hb,
            body |-> IF hb THEN CallerBody ELSE NoBody]
           : hm \in {TRUE}, hb \in BOOLEAN,
             m \in {GET, HEAD, POST, Str(<<"g", "e", "t">>), Str(<<"H", "e", "a", "d">>),
                    Undefined} }
    \cup { [EmptySettings EXCEPT !.hasBody = hb,
                                 !.body = IF hb THEN CallerBody ELSE NoBody]
           : hb \in BOOLEAN }

NoPromise == [state |-> "none", value |-> "none"]
Pending == [state |-> "pending", value |-> "none"]

Init ==
    /\ pc = "build"
    /\ entry = "none"
    /\ url \in Urls
    /\ data \in {ObjOf(<<>>), Undefined}
    /\ callerSettings \in SettingsInputs
    /\ settingsBefore = callerSettings
    /\ dataPieces = <<>>
    /\ fetchCalls = <<>>
    /\ promise = NoPromise
    /\ returned = NoPromise

BuildData == AddValue(SendLeaves, MaxSendNodes)

\* the body of an entry point that calls Request.send(url, data, st)
CallSend(st) ==
    LET r == send(url, data, st)
    IN  /\ dataPieces' = r.dataPieces
        /\ fetchCalls' = fetch(fetchCalls, r.url, r.options)
        /\ promise' = Pending
        /\ returned' = ReturnedHandle(Pending)
        /\ pc' = "pending"

Send ==
    /\ pc = "build"
    /\ entry' = "send"
    /\ CallSend(callerSettings)
    /\ UNCHANGED <<url, data, callerSettings, settingsBefore>>

\* get and post write the method on the settings object they were given (on a
\* fresh object when none was given) and pass that object on to send
Get ==
    /\ pc = "build"
    /\ entry' = "get"
    /\ LET settings == ObjectAssign(DefaultSettings(callerSettings), MethodOnly(GET))
       IN  /\ callerSettings' = IF callerSettings.given THEN settings ELSE callerSettings
           /\ CallSend(settings)
    /\ UNCHANGED <<url, data, settingsBefore>>

Post ==
    /\ pc = "build"
    /\ entry' = "post"
    /\ LET settings == ObjectAssign(DefaultSettings(callerSettings), MethodOnly(POST))
       IN  /\ callerSettings' = IF callerSettings.given THEN settings ELSE callerSettings
           /\ CallSend(settings)
    /\ UNCHANGED <<url, data, settingsBefore>>

\* the transport settles the promise it returned
TransportResolve ==
    /\ pc = "pending"
    /\ pc' = "settled"
    /\ promise' = [state |-> "fulfilled", value |-> "response"]
    /\ returned' = ReturnedHandle(promise')
    /\ UNCHANGED <<entry, url, data, callerSettings, settingsBefore, dataPieces, fetchCalls>>

TransportReject ==
    /\ pc = "pending"
    /\ pc' = "settled"
    /\ promise' = [state |-> "rejected", value |-> "TypeError"]
    /\ returned' = ReturnedHandle(promise')
    /\ UNCHANGED <<entry, url, data, callerSettings, settingsBefore, dataPieces, fetchCalls>>

Next == BuildData \/ Send \/ Get \/ Post \/ TransportResolve \/ TransportReject

Spec == Init /\ [][Next]_vars

-----------------------------------------------------------------------------
(* formatDataPieces on its own *)

InitFlatten ==
    /\ pc = "build"
    /\ entry = "none"
    /\ url = <<>>
    /\ data = ObjOf(<<>>)
    /\ callerSettings = Omitted
    /\ settingsBefore = Omitted
    /\ dataPieces = <<>>
    /\ fetchCalls = <<>>
    /\ promise = NoPromise
    /\ returned = NoPromise

BuildFlattenData == AddValue(FlattenLeaves, MaxNodes)

Flatten ==
    /\ pc = "build"
    /\ pc' = "flattened"
    /\ dataPieces' = formatDataPieces(data)
    /\ UNCHANGED <<entry, url, data, callerSettings, settingsBefore,
                   fetchCalls, promise, returned>>

NextFlatten == BuildFlattenData \/ Flatten

SpecFlatten == InitFlatten /\ [][NextFlatten]_vars

-----------------------------------------------------------------------------
(* Properties of formatDataPieces (checked under SpecFlatten) *)

IsPrimitive(val) == val.t \in {"string", "number", "boolean", "null"}

\* the primitive leaves of val in depth-first pre-order
RECURSIVE PrimitiveLeaves(_)
PrimitiveLeaves(val) ==
    LET cat[j \in 0..Len(val.kids)] ==
            IF j = 0 THEN <<>> ELSE cat[j - 1] \o PrimitiveLeaves(val.kids[j])
    IN  IF IsPrimitive(val) THEN <<val>>
        ELSE IF IsComposite(val) THEN cat[Len(val.kids)]
        ELSE <<>>

\* number of primitive leaves in the first j children of val
LeavesBefore(val, j) ==
    LET cnt[i \in 0..j] ==
            IF i = 0 THEN 0 ELSE cnt[i - 1] + Len(PrimitiveLeaves(val.kids[i]))
    IN  cnt[j]

\* the keys of seg are those of a visit of val under key: a primitive keeps key,
\* an array element at index i is visited under key[i] when it is an array or an
\* object and under key[] otherwise, an object entry k under key[k]
RECURSIVE KeysOfVisit(_, _, _)
KeysOfVisit(key, val, seg) ==
    LET part(j) == SubSeq(seg, LeavesBefore(val, j - 1) + 1, LeavesBefore(val, j))
    IN  IF IsPrimitive(val) THEN Len(seg) = 1 /\ seg[1].key = key
        ELSE IF val.t = "array"
        THEN \A j \in 1..Len(val.kids) :
                 KeysOfVisit(IF IsComposite(val.kids[j])
                             THEN key \o <<"[">> \o NumberToString(j - 1) \o <<"]">>
                             ELSE key \o <<"[", "]">>,
                             val.kids[j], part(j))
        ELSE IF val.t = "object"
        THEN \A j \in 1..Len(val.kids) :
                 KeysOfVisit(key \o <<"[">> \o val.keys[j] \o <<"]">>, val.kids[j], part(j))
        ELSE seg = <<>>

KeysOf(pieces) == [j \in 1..Len(pieces) |-> pieces[j].key]
ValsOf(pieces) == [j \in 1..Len(pieces) |-> pieces[j].val]

\* the inputs of the documented examples
ValuesExample == ObjOf(<< Arr(<< ObjOf(<< Str(<<"x">>), Str(<<"x">>) >>) >>) >>)
TagsExample == ObjOf(<< Arr(<< Str(<<"x">>), Num(1) >>) >>)
MixedExample == ObjOf(<< Arr(<< Str(<<"x">>), ObjOf(<< Num(1) >>) >>) >>)

\* C5: formatDataPieces visits an array element at index i under key[i] when the
\* element is an array or an object and under key[] otherwise, an object entry
\* under key[subKey], and a top-level primitive under its own key; so
\* {a: [{a: 'x', b: 'x'}]} gives a[0][a], a[0][b], {a: ['x', 1]} gives a[] twice
\* and {a: ['x', {a: 1}]} gives a[] then a[1][a].
C5_KeyComposition ==
    pc = "flattened" =>
        /\ Len(dataPieces) = LeavesBefore(data, Len(data.kids))
        /\ \A j \in 1..Len(data.kids) :
               KeysOfVisit(data.keys[j], data.kids[j],
                           SubSeq(dataPieces, LeavesBefore(data, j - 1) + 1,
                                  LeavesBefore(data, j)))
        /\ (data = ValuesExample =>
               KeysOf(dataPieces) = << <<"a", "[", "0", "]", "[", "a", "]">>,
                                       <<"a", "[", "0", "]", "[", "b", "]">> >>)
        /\ (data = TagsExample =>
               KeysOf(dataPieces) = << <<"a", "[", "]">>, <<"a", "[", "]">> >>)
        /\ (data = MixedExample =>
               KeysOf(dataPieces) = << <<"a", "[", "]">>,
                                       <<"a", "[", "1", "]", "[", "a", "]">> >>)

C5_Witness == pc = "flattened" /\ data = MixedExample /\ Len(dataPieces) = 2

-----------------------------------------------------------------------------
(* Properties of send, get and post (checked under Spec) *)

Called == pc \in {"pending", "settled"}

\* the invocation of fetch made by the call
TheCall == fetchCalls[1]

UpperChar(c) ==
    CASE c = "g" -> "G" [] c = "e" -> "E" [] c = "t" -> "T"
      [] c = "h" -> "H" [] c = "a" -> "A" [] c = "d" -> "D"
      [] OTHER -> c

ToUpperCase(chars) == [j \in 1..Len(chars) |-> UpperChar(chars[j])]

\* key=value texts of the pairs, values percent-encoded, separated by &
RECURSIVE QueryText(_)
QueryText(pieces) ==
    IF pieces = <<>> THEN <<>>
    ELSE Head(pieces).key \o <<"=">> \o encodeURIComponent(Head(pieces).val)
         \o (IF Len(pieces) = 1 THEN <<>> ELSE <<"&">> \o QueryText(Tail(pieces)))

\* the request has the query-string form: data in the URL, no form body built
QueryForm ==
    /\ TheCall.url = url \o <<"?">> \o QueryText(dataPieces)
    /\ TheCall.options.body.kind # "FormData"

\* the request has the form-body form: URL untouched, body is the form field list
BodyForm ==
    /\ TheCall.url = url
    /\ TheCall.options.hasBody
    /\ TheCall.options.body.kind = "FormData"

\* C1: any casing of GET or HEAD as the effective method yields the query-string
\* form, exactly as 'GET' and 'HEAD' do.
C1_CaseInsensitiveMethod ==
    (/\ Called
     /\ TheCall.options.method.t = "string"
     /\ ToUpperCase(TheCall.options.method.s) \in {GET.s, HEAD.s})
    => QueryForm

\* C2: get reaches the transport with method 'GET' and the query-string form and
\* post with method 'POST' and the form-body form, whatever the caller's settings.
C2_FixedMethod ==
    Called =>
        /\ (entry = "get" => TheCall.options.method = GET /\ QueryForm)
        /\ (entry = "post" => TheCall.options.method = POST /\ BodyForm)

C2_Witness ==
    /\ Called
    /\ entry = "get"
    /\ settingsBefore.hasMethod
    /\ settingsBefore.method = POST
    /\ TheCall.options.method = GET

SpacedText == Str(<<"x", " ", "&">>)

\* C3: with effective method GET or HEAD the URL given to the transport is the
\* caller's url, a '?', and the pairs of formatDataPieces(data) in order as
\* key=percentEncode(value) joined by '&'; keys are left raw, and with no pair
\* the URL ends in a bare '?'.
C3_QueryString ==
    (Called /\ TheCall.options.method \in {GET, HEAD}) =>
        /\ dataPieces = formatDataPieces(DefaultData(data))
        /\ TheCall.url = url \o <<"?">> \o QueryText(dataPieces)
        /\ (dataPieces = <<>> => TheCall.url = url \o <<"?">>)
        /\ (data = ObjOf(<<SpacedText>>) =>
               TheCall.url = url \o <<"?", "a", "=", "x", "%", "2", "0", "%", "2", "6">>)
        /\ (data = ObjOf(<<Arr(<<Null, Num(12)>>)>>) =>
               TheCall.url = url \o <<"?", "a", "[", "]", "=", "n", "u", "l", "l", "&",
                                      "a", "[", "]", "=", "1", "2">>)

C3_Witness ==
    /\ Called
    /\ entry = "send"
    /\ TheCall.options.method = HEAD
    /\ data = ObjOf(<<SpacedText, Arr(<<Num(12)>>)>>)
    /\ Len(dataPieces) = 2

\* C4 as stated: with any other effective method the body's (name, value) entries
\* equal the pairs of formatDataPieces(data) element for element.
C4_BodyEqualsPieces ==
    (Called /\ TheCall.options.method \notin {GET, HEAD}) =>
        /\ TheCall.options.body.kind = "FormData"
        /\ Len(TheCall.options.body.fields) = Len(dataPieces)
        /\ \A j \in 1..Len(dataPieces) :
               /\ TheCall.options.body.fields[j].name = dataPieces[j].key
               /\ TheCall.options.body.fields[j].value = dataPieces[j].val

\* C4 amended: with any other effective method the body is a field list with one
\* entry per pair of formatDataPieces(data), in the same order and with duplicate
\* keys kept; each name is the pair's key and each value is the pair's value
\* converted to a string, neither percent-encoded.
C4_BodyFieldList ==
    (Called /\ TheCall.options.method \notin {GET, HEAD}) =>
        /\ dataPieces = formatDataPieces(DefaultData(data))
        /\ TheCall.options.body.kind = "FormData"
        /\ Len(TheCall.options.body.fields) = Len(dataPieces)
        /\ \A j \in 1..Len(dataPieces) :
               /\ TheCall.options.body.fields[j].name = dataPieces[j].key
               /\ TheCall.options.body.fields[j].value.t = "string"
               /\ TheCall.options.body.fields[j].value.s = ToStringJS(dataPieces[j].val)
               /\ (dataPieces[j].val.t = "string" =>
                       TheCall.options.body.fields[j].value = dataPieces[j].val)
        /\ (data = ObjOf(<<Arr(<<SpacedText, Null>>)>>) =>
               TheCall.options.body.fields =
                   << [name |-> <<"a", "[", "]">>, value |-> SpacedText],
                      [name |-> <<"a", "[", "]">>, value |-> Str(<<"n", "u", "l", "l">>)] >>)

C4_Witness ==
    /\ Called
    /\ TheCall.options.method = POST
    /\ data = ObjOf(<<Arr(<<SpacedText, Null>>)>>)
    /\ Len(TheCall.options.body.fields) = 2

\* C7: send with settings that supply no usable method (omitted, no method field,
\* or a method field that is undefined) uses 'GET': query-string form, no body.
C7_DefaultMethod ==
    (/\ Called
     /\ entry = "send"
     /\ (~settingsBefore.hasMethod \/ settingsBefore.method = Undefined))
    => (TheCall.options.method = GET /\ QueryForm)

\* C8 as stated: for GET/HEAD the transport receives the URL with the query string
\* and options that carry no body, for every other method the caller's url and
\* options whose body is the form field list, for every settings object.
C8_NoBodyOnQueryForm ==
    Called =>
        IF TheCall.options.method \in {GET, HEAD}
        THEN QueryForm /\ ~TheCall.options.hasBody
        ELSE BodyForm

\* C8 amended: send builds exactly one of the two forms, chosen by whether the
\* merged method is exactly 'GET' or 'HEAD': then the URL gets the query string and
\* the options' body is left as the caller's settings had it (absent when they had
\* none, never a form field list); otherwise the URL is the caller's url unchanged
\* and the options' body is the form field list, in place of any body the caller
\* passed.
C8_ExactlyOneForm ==
    Called =>
        IF TheCall.options.method \in {GET, HEAD}
        THEN /\ QueryForm
             /\ TheCall.options.hasBody = settingsBefore.hasBody
             /\ TheCall.options.body = settingsBefore.body
        ELSE BodyForm

C8_Witness ==
    /\ Called
    /\ TheCall.options.method = GET
    /\ settingsBefore.hasBody
    /\ TheCall.options.body = CallerBody
    /\ dataPieces # <<>>

\* C9: no entry point mutates a caller-supplied object: the caller's settings
\* object and data object are the same after the call as before it.
C9_NoCallerMutation ==
    [][(pc = "build" /\ pc' = "pending") =>
           (callerSettings' = callerSettings /\ data' = data)]_vars

\* C10: each call invokes the transport exactly once, once the pieces are
\* flattened and encoded, and the caller's handle is the transport's own: it is
\* pending, fulfilled or rejected as the transport's promise is, with the same
\* value, and a failure brings no second invocation.
C10_SingleAttempt ==
    Called =>
        /\ Len(fetchCalls) = 1
        /\ dataPieces = formatDataPieces(DefaultData(data))
        /\ (QueryForm \/ BodyForm)
        /\ returned = promise
        /\ (pc = "pending" => promise.state = "pending")
        /\ (pc = "settled" => promise.state \in {"fulfilled", "rejected"})

C10_Witness ==
    /\ pc = "settled"
    /\ promise.state = "rejected"
    /\ returned = promise
    /\ Len(fetchCalls) = 1

====
